---- MODULE Spec2Model ----
(***************************************************************************)
(* The conversational-assistant gateway of mcp-server/src/http.ts.         *)
(*                                                                         *)
(* http.ts holds two programs: the per-user gateway (lines 1-150: health,  *)
(* profile, chat with a per-user system instruction, send-email) and the   *)
(* static-prompt gateway (lines 152-217: chat only, one system instruction *)
(* read from prompts/system.md at startup).  The variable `variant` says   *)
(* which of the two is the running process.                                *)
(*                                                                         *)
(* A request handler runs synchronously up to its first await, so the      *)
(* part of a handler before the network call is one action, the answer of  *)
(* the backend is an action of the environment, and the continuation of    *)
(* the handler after the await is one more action.                         *)
(***************************************************************************)
EXTENDS Integers, Sequences, FiniteSets, TLC

\* Longest caller-supplied history drawn as an input.
MaxHist == 2

\* The request contexts that may be in flight together.
Requests == {"rA", "rB"}

(***************************************************************************)
(* JavaScript values of the request bodies and of the environment.         *)
(***************************************************************************)
Undefined == [t |-> "undefined", v |-> ""]
Null == [t |-> "null", v |-> ""]
Str(s) == [t |-> "string", v |-> s]
Num(s) == [t |-> "number", v |-> s]

\* !x is false
Truthy(x) ==
  /\ x.t \notin {"undefined", "null"}
  /\ ~(x.t = "string" /\ x.v = "")
  /\ ~(x.t = "number" /\ x.v = "0")

\* a destructuring default `{ f = d }` applies to undefined only
OrDefault(x, d) == IF x = Undefined THEN d ELSE x

\* a ?? b
Coalesce(x, d) == IF x \in {Undefined, Null} THEN d ELSE x

(***************************************************************************)
(* context.ts: the profile store and the instruction builder.              *)
(***************************************************************************)
ProfileStore ==
  [demo |-> [email |-> Str("demo@example.com"), allergies |-> {"peanuts"}],
   bob  |-> [email |-> Str("bob@example.com"), allergies |-> {"penicillin"}]]

EmptyProfile == [email |-> Undefined, allergies |-> {}]

\* The store is outside the gateway: it can be rewritten from outside, and a
\* read of it can fail.
Stores ==
  {[readable |-> TRUE, records |-> ProfileStore],
   [readable |-> FALSE, records |-> ProfileStore],
   [readable |-> TRUE,
    records |-> [demo |-> [email |-> Str("demo@clinic.example"),
                           allergies |-> {"peanuts", "latex"}]]]}

\* Most rewrites of the store from outside in one run.
MaxStoreWrites == 2

VARIABLES
  profileStore,       \* the profile store as it is now
  storeEpoch,         \* how often the store was rewritten from outside
  systemMd            \* prompts/system.md: one of its texts, or "missing"

store == <<profileStore, storeEpoch>>

\* a missing record and a failed read both give the empty profile
loadUserProfile(userId) ==
  IF /\ profileStore.readable
     /\ userId.t = "string"
     /\ userId.v \in DOMAIN profileStore.records
    THEN profileStore.records[userId.v]
    ELSE EmptyProfile

\* the policy text an instruction is built on: that of prompts/system.md,
\* and none when there is no such file
PolicyOf(md) == IF md = "missing" THEN "none" ELSE "system.md"

\* the static policy template plus one exclusion clause per safety flag
buildSystemInstruction(userId) ==
  [policy |-> PolicyOf(systemMd),
   exclusions |-> loadUserProfile(userId).allergies]

\* prompts/system.md comes in two texts: a generic policy, and a policy with
\* one user's allergy written into it ("USER CONTEXT: allergy = peanuts")
SystemMdTexts == {"generic", "peanuts"}

\* static-prompt gateway: the text of prompts/system.md, read once at startup
StaticSystemInstruction(md) ==
  [policy |-> PolicyOf(md),
   exclusions |-> IF md = "peanuts" THEN {"peanuts"} ELSE {}]

(***************************************************************************)
(* Inputs.                                                                 *)
(***************************************************************************)
Turns == {[role |-> "user", content |-> "q1"],
          [role |-> "assistant", content |-> "a1"]}

Histories == UNION {[1..k -> Turns] : k \in 0..MaxHist}

NoHistory == [kind |-> "undefined", turns |-> <<>>]
ArrayHistory(h) == [kind |-> "array", turns |-> h]

\* a history that is no array (a string: it has no map), and an array item
\* that is no {role, content} turn (its role and content read as undefined)
StringHistory == [kind |-> "string", turns |-> <<>>]
BadTurn == [role |-> "undefined", content |-> "undefined"]

\* no userId (the default user), and an id with no stored record
UserIds == {Undefined, Str("zed")}

ChatBodies ==
  [message : {Undefined, Str(""), Num("7"), Str("hello")},
   history : {NoHistory} \cup {ArrayHistory(h) : h \in Histories},
   userId  : UserIds,
   modelName : {Undefined}]

EmailBodies ==
  [to      : {Undefined, Str(""), Str("x@example.com")},
   subject : {Undefined, Str(""), Str("Hi")},
   text    : {Undefined, Str(""), Str("Body")},
   userId  : UserIds]

\* what a rejected promise or a throw carries: e.message and String(e)
NoError == [message |-> Undefined, string |-> ""]
Errors == {[message |-> Str("quota exceeded"), string |-> "Error: quota exceeded"],
           [message |-> Undefined, string |-> "timeout"]}
TypeError == [message |-> Str("resp.response is undefined"),
              string |-> "TypeError: resp.response is undefined"]

\* history.map(...) on a history that has no map
MapTypeError == [message |-> Str("history.map is not a function"),
                 string |-> "TypeError: history.map is not a function"]

\* how model.generateContent({ contents }) settles: a reply with text, a
\* reply whose resp.response.text() throws, or a rejection
ModelOutcomes ==
  {[kind |-> "text", text |-> "reply", error |-> NoError],
   [kind |-> "malformed", text |-> "", error |-> TypeError]}
  \cup {[kind |-> "rejected", text |-> "", error |-> e] : e \in Errors}

\* the body of an answer of the email backend: whether resp.text() /
\* resp.json() can read it, its text, and whether the text is JSON
UpstreamBodies ==
  {[readable |-> TRUE, text |-> "{\"id\":1}", isJson |-> TRUE],
   [readable |-> TRUE, text |-> "upstream exploded", isJson |-> FALSE],
   [readable |-> FALSE, text |-> "", isJson |-> FALSE]}

NoUpstreamBody == [readable |-> FALSE, text |-> "", isJson |-> FALSE]

\* how the fetch to the email backend settles: an HTTP answer or a rejection
EmailOutcomes ==
  {[kind |-> "response", status |-> s, body |-> b, error |-> NoError] :
      s \in {200, 500}, b \in UpstreamBodies}
  \cup {[kind |-> "network", status |-> 0, body |-> NoUpstreamBody, error |-> e] :
      e \in Errors}

NoOutcome == [kind |-> "none"]

VARIABLES
  variant,            \* "perUser" (lines 1-150) or "static" (lines 152-217)
  apiKey,             \* process.env.GEMINI_API_KEY
  backendBaseUrl,     \* process.env.BACKEND_BASE_URL
  agentmailAgent,     \* process.env.AGENTMAIL_AGENT
  serving,            \* the process passed startup and is listening
  reqs,               \* per request context: route, body, position of its handler
  responses,          \* per request context: the responses written to res
  modelCalls,         \* per request context: the calls of model.generateContent
  emailCalls          \* per request context: the fetches to the email backend

\* The programs around the gateway: the CLI session (server.ts), the chat
\* widget of the browser (DashboardContent.tsx) and the patient portal
\* (Dashboard.tsx, OnboardingFlow.tsx).
VARIABLES
  cliEnv,             \* CLI: BACKEND and the profile's email, read at startup
  cliPc,              \* CLI: where main() stands
  cliLine,            \* CLI: the line read last, with how its await settled
  cliHistory,         \* CLI: const history: Msg[]
  cliOut,             \* CLI: what the line read last made the console print
  widgetHistory,      \* widget: useState<Msg[]>([])
  widgetInput,        \* widget: useState('')
  widgetLoading,      \* widget: useState(false)
  wire,               \* widget: per connection, the body of the fetch in flight
  dashVariant,        \* portal: which of the two Dashboard components runs
  patientProfile,     \* Dashboard: useState<PatientProfile | null>(null)
  isNewUser,          \* Dashboard: useState(false)
  dashLoading,        \* Dashboard: useState(true)
  loads,              \* Dashboard: the runs of loadPatientData
  currentStep,        \* OnboardingFlow: useState(1)
  formData,           \* OnboardingFlow: the required fields of the form
  submits,            \* OnboardingFlow: the runs of handleSubmit
  completed           \* OnboardingFlow: the profiles onComplete was called with

cliVars == <<cliEnv, cliPc, cliLine, cliHistory, cliOut>>
widgetVars == <<widgetHistory, widgetInput, widgetLoading, wire>>
portalVars == <<dashVariant, patientProfile, isNewUser, dashLoading, loads,
                currentStep, formData, submits, completed>>
clients == <<cliVars, widgetVars, portalVars>>

vars == <<variant, systemMd, apiKey, backendBaseUrl, agentmailAgent, serving,
          reqs, responses, modelCalls, emailCalls, profileStore, storeEpoch,
          clients>>

config == <<variant, systemMd, apiKey, backendBaseUrl, agentmailAgent>>

Idle == [route |-> "none", phase |-> "idle", body |-> [none |-> TRUE],
         outcome |-> NoOutcome]

(***************************************************************************)
(* Startup: the module body of http.ts.                                    *)
(***************************************************************************)
\* import './context' (per-user gateway): the policy template is loaded with
\* the module, and a missing or unreadable template is fatal there
ContextLoads(md) == md # "missing"

\* const AGENTMAIL_AGENT = process.env.AGENTMAIL_AGENT || '...'
AGENTMAIL_AGENT ==
  IF Truthy(agentmailAgent) THEN agentmailAgent
  ELSE Str("terriblemedicine23@agentmail.to")

\* a gateway that listens without the credential
StartupPasses_NoKeyCheck(v, md, key) ==
  /\ v = "static" => md # "missing"
  /\ v = "perUser" => ContextLoads(md)

\* a gateway that reads the template when the first request needs it
StartupPasses_LazyTemplate(v, md, key) == Truthy(key)

\* app.listen(...) is reached unless the module body throws before it:
\* fs.readFileSync of the template (static-prompt gateway), and
\* if (!GEMINI_API_KEY) throw new Error(...)
StartupPasses(v, md, key) ==
  /\ v = "static" => md # "missing"
  /\ v = "perUser" => ContextLoads(md)
  /\ Truthy(key)

\* the environment the process starts in, and whether it gets to listen
ConfigInit ==
  /\ variant \in {"perUser", "static"}
  /\ systemMd \in
       IF variant = "static" THEN SystemMdTexts \cup {"missing"}
       ELSE {"generic", "missing"}
  /\ apiKey \in {Undefined, Str(""), Str("key")}
  /\ backendBaseUrl \in
       IF variant = "perUser" THEN {Undefined, Str("http://127.0.0.1:5000")}
       ELSE {Undefined}
  /\ agentmailAgent \in
       IF variant = "perUser" THEN {Undefined, Str("ops@agentmail.to")}
       ELSE {Undefined}
  /\ serving = StartupPasses(variant, systemMd, apiKey)

\* no request has arrived
NoRequests ==
  /\ reqs = [r \in Requests |-> Idle]
  /\ responses = [r \in Requests |-> <<>>]
  /\ modelCalls = [r \in Requests |-> <<>>]
  /\ emailCalls = [r \in Requests |-> <<>>]

\* the CLI has not been started
NoLine == [cmd |-> "none", text |-> "", outcome |-> NoOutcome]
CliOff ==
  /\ cliEnv = [backend |-> Undefined, email |-> Undefined]
  /\ cliPc = "off"
  /\ cliLine = NoLine
  /\ cliHistory = <<>>
  /\ cliOut = ""

\* the chat widget as it mounts: nothing typed, nothing sent
NoWire == [sent |-> FALSE]
WidgetMounted ==
  /\ widgetHistory = <<>>
  /\ widgetInput = ""
  /\ widgetLoading = FALSE
  /\ wire = [r \in Requests |-> NoWire]

\* the required personal fields of the onboarding form
RequiredFields ==
  {"dateOfBirth", "gender", "phone", "address", "emergencyContact.name",
   "emergencyContact.phone", "emergencyContact.relationship"}

\* useState({ dateOfBirth: '', gender: '', ... })
BlankForm == [f \in RequiredFields |-> ""]

\* the runs of the Dashboard's effect: React.StrictMode (main.tsx) runs it
\* twice on mount, and it runs again when user changes
Effects == {"e1", "e2"}
NoLoad == [phase |-> "idle", outcome |-> NoOutcome]

\* the clicks on Complete Setup, each a run of handleSubmit
Clicks == {"c1", "c2"}
NoSubmit == [phase |-> "idle", tokenCalls |-> 0, createCalls |-> 0,
             outcome |-> NoOutcome]

\* a Dashboard as it mounts, with the OnboardingFlow it may come to render
PortalMounted(v) ==
  /\ dashVariant = v
  /\ patientProfile = Null
  /\ isNewUser = FALSE
  /\ dashLoading = TRUE
  /\ loads = [e \in Effects |-> NoLoad]
  /\ currentStep = 1
  /\ formData = BlankForm
  /\ submits = [c \in Clicks |-> NoSubmit]
  /\ completed = <<>>

\* no browser has opened the portal
PortalOff == PortalMounted("none")

Init ==
  /\ ConfigInit
  /\ profileStore = [readable |-> TRUE, records |-> ProfileStore]
  /\ storeEpoch = 0
  /\ NoRequests
  /\ CliOff /\ WidgetMounted /\ PortalOff

\* res.status(s).json(j)
Respond(r, resp) == responses' = [responses EXCEPT ![r] = Append(@, resp)]

(***************************************************************************)
(* POST /api/chat                                                          *)
(***************************************************************************)
\* a handler without the typeof test
ChatMessageInvalid_FalsyOnly(message) == ~Truthy(message)

\* !message || typeof message !== 'string'
ChatMessageInvalid(message) == ~Truthy(message) \/ message.t # "string"

\* history = [] when the body has none
ChatHistory(body) ==
  IF body.history.kind = "undefined" THEN <<>> ELSE body.history.turns

\* userId = 'demo' when the body has none
ChatUserId(body) == OrDefault(body.userId, Str("demo"))

\* modelName = 'gemini-2.0-flash' when the body has none; the static-prompt
\* gateway does not read the field
ChatModelName(v, body) ==
  IF v = "perUser" THEN OrDefault(body.modelName, Str("gemini-2.0-flash"))
  ELSE Str("gemini-2.0-flash")

\* h.role === 'assistant' ? 'model' : 'user'
\* a conversion that hands the role on as it came
GeminiRole_AsIs(role) == role

GeminiRole(role) == IF role = "assistant" THEN "model" ELSE "user"

\* a handler that puts the new message before the history
Contents_MessageFirst(history, message) ==
  <<[role |-> "user", text |-> message]>>
  \o [i \in 1..Len(history) |->
       [role |-> GeminiRole(history[i].role), text |-> history[i].content]]

\* the turn sequence handed to model.generateContent
Contents(history, message) ==
  [i \in 1..Len(history) |->
     [role |-> GeminiRole(history[i].role), text |-> history[i].content]]
  \o <<[role |-> "user", text |-> message]>>

\* the system instruction of the model object the request is sent through
ChatSystemInstruction(v, md, userId) ==
  IF v = "perUser" THEN buildSystemInstruction(userId)
  ELSE StaticSystemInstruction(md)

ChatBadRequest(v) ==
  [status |-> 400,
   json |-> [error |-> IF v = "perUser" THEN "message is required (string)"
                       ELSE "message is required"]]

ChatOk(text) == [status |-> 200, json |-> [text |-> text]]

\* a handler that swallows the fault
ChatCatch_AsOk(e) == ChatOk("")

\* catch (e): res.status(500).json({ error: 'chat_failed', details: e?.message ?? String(e) })
ChatCatch(e) ==
  [status |-> 500,
   json |-> [error |-> "chat_failed",
             details |-> Coalesce(e.message, Str(e.string)).v]]

\* history.map exists: the history is an array (or absent, and [] by default)
HistoryMaps(body) == body.history.kind \in {"undefined", "array"}

\* the handler up to `await model.generateContent({ contents })`
ChatStart(r, body) ==
  /\ serving
  /\ reqs[r].phase = "idle"
  /\ IF ChatMessageInvalid(body.message)
       THEN /\ reqs' = [reqs EXCEPT ![r] =
                  [route |-> "chat", phase |-> "done", body |-> body,
                   outcome |-> NoOutcome]]
            /\ Respond(r, ChatBadRequest(variant))
            /\ UNCHANGED modelCalls
       ELSE IF ~HistoryMaps(body)
       THEN \* history.map throws inside the try, after the system
            \* instruction was built: the catch answers
            /\ reqs' = [reqs EXCEPT ![r] =
                  [route |-> "chat", phase |-> "done", body |-> body,
                   outcome |-> [kind |-> "threw", text |-> "",
                                error |-> MapTypeError]]]
            /\ Respond(r, ChatCatch(MapTypeError))
            /\ UNCHANGED modelCalls
       ELSE /\ reqs' = [reqs EXCEPT ![r] =
                  [route |-> "chat", phase |-> "awaiting", body |-> body,
                   outcome |-> NoOutcome]]
            /\ modelCalls' = [modelCalls EXCEPT ![r] = Append(@,
                  [systemInstruction |->
                     ChatSystemInstruction(variant, systemMd, ChatUserId(body)),
                   model |-> ChatModelName(variant, body),
                   contents |-> Contents(ChatHistory(body), body.message.v)])]
            /\ UNCHANGED responses
  /\ UNCHANGED <<config, clients, store, serving, emailCalls>>

\* the model backend answers, or the call fails
ModelSettles(r, o) ==
  /\ reqs[r].route = "chat"
  /\ reqs[r].phase = "awaiting"
  /\ reqs' = [reqs EXCEPT ![r].phase = "settled", ![r].outcome = o]
  /\ UNCHANGED <<config, clients, store, serving, responses, modelCalls, emailCalls>>

\* a handler that calls the model again when the call was rejected
ChatContinuation_RetryRejected(o, call) ==
  IF o.kind = "rejected"
    THEN [responses |-> <<>>, calls |-> <<call>>]
    ELSE [responses |-> <<IF o.kind = "text" THEN ChatOk(o.text)
                          ELSE ChatCatch(o.error)>>,
          calls |-> <<>>]

\* what the handler does once `call` has settled as o: the response it
\* writes and the model calls it makes (none: there is no loop around the
\* await, and the catch only responds)
ChatContinuation(o, call) ==
  [responses |-> <<IF o.kind = "text" THEN ChatOk(o.text) ELSE ChatCatch(o.error)>>,
   calls |-> <<>>]

\* the handler after the await: resp.response.text(), res.json or the catch
ChatResume(r) ==
  /\ reqs[r].route = "chat"
  /\ reqs[r].phase = "settled"
  /\ LET k == ChatContinuation(reqs[r].outcome, modelCalls[r][Len(modelCalls[r])]) IN
       /\ responses' = [responses EXCEPT ![r] = @ \o k.responses]
       /\ modelCalls' = [modelCalls EXCEPT ![r] = @ \o k.calls]
       /\ reqs' = [reqs EXCEPT ![r].phase =
                     IF k.calls = <<>> THEN "done" ELSE "awaiting"]
  /\ UNCHANGED <<config, clients, store, serving, emailCalls>>

(***************************************************************************)
(* POST /api/send-email (per-user gateway only)                            *)
(***************************************************************************)
\* a handler without the configuration check
RelayUnconfigured_Never(url) == FALSE

\* !BACKEND_BASE_URL
RelayUnconfigured(url) == ~Truthy(url)

\* a handler that looks at the recipient only
EmailFieldsMissing_ToOnly(to, subject, text) == ~Truthy(to)

\* !to || !subject || !text
EmailFieldsMissing(to, subject, text) ==
  ~Truthy(to) \/ ~Truthy(subject) \/ ~Truthy(text)

EmailUserId(body) == OrDefault(body.userId, Str("demo"))

EmailNotConfigured ==
  [status |-> 400, json |-> [error |-> "BACKEND_BASE_URL not configured in .env"]]

EmailBadRequest ==
  [status |-> 400, json |-> [error |-> "to, subject, and text are required"]]

\* a relay that writes to the address on file, as the CLI's :mail does
OutboundEmail_ToProfile(agent, to, subject, text, userId, profile) ==
  [agent_email |-> agent,
   recipientEmail |-> profile.email,
   subject |-> subject,
   text |-> text,
   meta |-> [userId |-> userId, profileEmail |-> Coalesce(profile.email, Null)]]

\* the JSON body of the fetch to `${BACKEND_BASE_URL}/api/send-new-message`
OutboundEmail(agent, to, subject, text, userId, profile) ==
  [agent_email |-> agent,
   recipientEmail |-> to,
   subject |-> subject,
   text |-> text,
   meta |-> [userId |-> userId, profileEmail |-> Coalesce(profile.email, Null)]]

\* errTxt = await resp.text().catch(() => '')
ErrTxt(body) == IF body.readable THEN body.text ELSE ""

\* a relay that hands on the text of the upstream body as it came
ForwardedData_RawText(body) == body.text

\* data = await resp.json().catch(() => ({}))
ForwardedData(body) == IF body.readable /\ body.isJson THEN body.text ELSE "{}"

\* resp.ok
UpstreamOk(status) == status >= 200 /\ status <= 299

\* a handler that drops the upstream body text
BadGateway_NoBody(status, errTxt) ==
  [status |-> 502,
   json |-> [error |-> "sender_bad_gateway", status |-> status, body |-> ""]]

BadGateway(status, errTxt) ==
  [status |-> 502,
   json |-> [error |-> "sender_bad_gateway", status |-> status, body |-> errTxt]]

EmailOk(data) == [status |-> 200, json |-> [ok |-> TRUE, forwarded |-> data]]

\* a handler that swallows the fault
EmailCatch_AsOk(e) == EmailOk("{}")

\* catch (e): res.status(500).json({ error: 'send_email_failed', details: ... })
EmailCatch(e) ==
  [status |-> 500,
   json |-> [error |-> "send_email_failed",
             details |-> Coalesce(e.message, Str(e.string)).v]]

\* a handler that validates the fields before it looks at the configuration
EmailRefusal_FieldsFirst(url, body) ==
  IF EmailFieldsMissing(body.to, body.subject, body.text) THEN <<EmailBadRequest>>
  ELSE IF RelayUnconfigured(url) THEN <<EmailNotConfigured>>
  ELSE <<>>

\* the two early returns, in the order of the code: the response of the
\* first check that fails, or none
EmailRefusal(url, body) ==
  IF RelayUnconfigured(url) THEN <<EmailNotConfigured>>
  ELSE IF EmailFieldsMissing(body.to, body.subject, body.text) THEN <<EmailBadRequest>>
  ELSE <<>>

\* the handler up to `await fetch(...)`; profileReads counts its calls of
\* loadUserProfile
EmailStart(r, body) ==
  /\ serving
  /\ variant = "perUser"
  /\ reqs[r].phase = "idle"
  /\ IF EmailRefusal(backendBaseUrl, body) # <<>>
       THEN /\ reqs' = [reqs EXCEPT ![r] =
                  [route |-> "send-email", phase |-> "done", body |-> body,
                   outcome |-> NoOutcome, profileReads |-> 0]]
            /\ Respond(r, EmailRefusal(backendBaseUrl, body)[1])
            /\ UNCHANGED emailCalls
       ELSE /\ reqs' = [reqs EXCEPT ![r] =
                  [route |-> "send-email", phase |-> "awaiting", body |-> body,
                   outcome |-> NoOutcome, profileReads |-> 1]]
            /\ emailCalls' = [emailCalls EXCEPT ![r] = Append(@,
                  OutboundEmail(AGENTMAIL_AGENT, body.to, body.subject, body.text,
                                EmailUserId(body),
                                loadUserProfile(EmailUserId(body))))]
            /\ UNCHANGED responses
  /\ UNCHANGED <<config, clients, store, serving, modelCalls>>

\* the email backend answers, or the fetch rejects
EmailSettles(r, o) ==
  /\ reqs[r].route = "send-email"
  /\ reqs[r].phase = "awaiting"
  /\ reqs' = [reqs EXCEPT ![r].phase = "settled", ![r].outcome = o]
  /\ UNCHANGED <<config, clients, store, serving, responses, modelCalls, emailCalls>>

\* what the handler does once the fetch `out` has settled as o: the
\* response it writes and the fetches it makes (none)
EmailContinuation(o, out) ==
  [responses |-> <<IF o.kind = "network" THEN EmailCatch(o.error)
                   ELSE IF ~UpstreamOk(o.status)
                     THEN BadGateway(o.status, ErrTxt(o.body))
                   ELSE EmailOk(ForwardedData(o.body))>>,
   calls |-> <<>>]

\* the handler after the await
EmailResume(r) ==
  /\ reqs[r].route = "send-email"
  /\ reqs[r].phase = "settled"
  /\ LET k == EmailContinuation(reqs[r].outcome, emailCalls[r][Len(emailCalls[r])]) IN
       /\ responses' = [responses EXCEPT ![r] = @ \o k.responses]
       /\ emailCalls' = [emailCalls EXCEPT ![r] = @ \o k.calls]
       /\ reqs' = [reqs EXCEPT ![r].phase =
                     IF k.calls = <<>> THEN "done" ELSE "awaiting"]
  /\ UNCHANGED <<config, clients, store, serving, modelCalls>>

(***************************************************************************)
(* The exchange is over; the next request may use the context.             *)
(***************************************************************************)
\* ---- GET /api/profile/:userId ----

\* the ids asked for: two with a record in the first store, one with none
ProfileIds == {Str("demo"), Str("bob"), Str("zed")}

\* userId || 'demo'
ProfileLookupId(userId) == OrDefault(userId, Str("demo"))

\* a handler that answers 404 for an id with no profile
ProfileOk_404OnMiss(userId, profile) ==
  [status |-> IF profile = EmptyProfile THEN 404 ELSE 200,
   json |-> [userId |-> userId.v, profile |-> profile]]

\* a handler that answers from what it has at hand while another request
\* has an answer pending release
ProfileOk_Drift(userId, profile) ==
  [status |-> 200,
   json |-> [userId |-> userId.v,
             profile |-> IF \E q \in Requests : responses[q] # <<>>
                           THEN EmptyProfile ELSE profile]]

\* res.json({ userId, profile })
ProfileOk(userId, profile) ==
  [status |-> 200, json |-> [userId |-> userId.v, profile |-> profile]]

\* the whole handler: it is synchronous.  The outcome field records the
\* store as it was when the lookup ran.
ProfileGet(r, userId) ==
  /\ serving
  /\ variant = "perUser"
  /\ reqs[r].phase = "idle"
  /\ reqs' = [reqs EXCEPT ![r] =
        [route |-> "profile", phase |-> "done", body |-> [userId |-> userId],
         outcome |-> [kind |-> "lookup", epoch |-> storeEpoch,
                      store |-> profileStore]]]
  /\ Respond(r, ProfileOk(userId, loadUserProfile(ProfileLookupId(userId))))
  /\ UNCHANGED <<config, clients, store, serving, modelCalls, emailCalls>>

\* the store is rewritten from outside the gateway
StoreMutates(s) ==
  /\ storeEpoch < MaxStoreWrites
  /\ s # profileStore
  /\ profileStore' = s
  /\ storeEpoch' = storeEpoch + 1
  /\ UNCHANGED <<config, clients, serving, reqs, responses, modelCalls, emailCalls>>

\* ---- GET /api/health ----

\* what new Date().toISOString() reads
Times == {"2025-01-01T00:00:00.000Z", "2025-01-01T00:00:01.000Z"}

\* a health check that reports the relay configuration
HealthOk_RelayDown(t) ==
  IF Truthy(backendBaseUrl)
    THEN [status |-> 200, json |-> [ok |-> TRUE, service |-> "mcp-http", time |-> t]]
    ELSE [status |-> 503, json |-> [ok |-> FALSE, service |-> "mcp-http", time |-> t]]

\* res.json({ ok: true, service: 'mcp-http', time: ... })
HealthOk(t) ==
  [status |-> 200, json |-> [ok |-> TRUE, service |-> "mcp-http", time |-> t]]

HealthGet(r, t) ==
  /\ serving
  /\ variant = "perUser"
  /\ reqs[r].phase = "idle"
  /\ reqs' = [reqs EXCEPT ![r] =
        [route |-> "health", phase |-> "done", body |-> [none |-> TRUE],
         outcome |-> NoOutcome]]
  /\ Respond(r, HealthOk(t))
  /\ UNCHANGED <<config, clients, store, serving, modelCalls, emailCalls>>

Release(r) ==
  /\ reqs[r].phase = "done"
  /\ reqs' = [reqs EXCEPT ![r] = Idle]
  /\ responses' = [responses EXCEPT ![r] = <<>>]
  /\ modelCalls' = [modelCalls EXCEPT ![r] = <<>>]
  /\ emailCalls' = [emailCalls EXCEPT ![r] = <<>>]
  /\ UNCHANGED <<config, clients, store, serving>>

Next ==
  \E r \in Requests :
    \/ \E body \in ChatBodies : ChatStart(r, body)
    \/ \E o \in ModelOutcomes : ModelSettles(r, o)
    \/ ChatResume(r)
    \/ \E body \in EmailBodies : EmailStart(r, body)
    \/ \E o \in EmailOutcomes : EmailSettles(r, o)
    \/ EmailResume(r)
    \/ Release(r)

Spec == Init /\ [][Next]_vars

\* ---- the whole HTTP surface, with a store that changes ----

\* chat bodies with a valid message and each shape of history, and one with
\* no message
SurfaceChatBodies ==
  {[message |-> Str("hello"), history |-> h, userId |-> Undefined,
    modelName |-> Undefined] :
      h \in {NoHistory, StringHistory, ArrayHistory(<<BadTurn>>)}}
  \cup {[message |-> Undefined, history |-> NoHistory, userId |-> Undefined,
          modelName |-> Undefined]}

SurfaceEmailBodies ==
  {[to |-> t, subject |-> Str("Hi"), text |-> Str("Body"), userId |-> Undefined] :
      t \in {Undefined, Str("x@example.com")}}

SurfaceInit ==
  /\ ConfigInit
  /\ profileStore \in Stores
  /\ storeEpoch = 0
  /\ NoRequests
  /\ CliOff /\ WidgetMounted /\ PortalOff

SurfaceNext ==
  \/ \E r \in Requests :
       \/ \E userId \in ProfileIds : ProfileGet(r, userId)
       \/ \E t \in Times : HealthGet(r, t)
       \/ \E body \in SurfaceChatBodies : ChatStart(r, body)
       \/ \E o \in ModelOutcomes : ModelSettles(r, o)
       \/ ChatResume(r)
       \/ \E body \in SurfaceEmailBodies : EmailStart(r, body)
       \/ \E o \in EmailOutcomes : EmailSettles(r, o)
       \/ EmailResume(r)
       \/ Release(r)
  \/ \E s \in Stores : StoreMutates(s)

SurfaceSpec == SurfaceInit /\ [][SurfaceNext]_vars

\* The event loop runs the continuation of a handler whose await has
\* settled; nothing makes a backend answer.
FairSpec ==
  Spec /\ \A r \in Requests : WF_vars(ChatResume(r)) /\ WF_vars(EmailResume(r))

(***************************************************************************)
(* The claims.                                                             *)
(***************************************************************************)
IsChat(r) == reqs[r].route = "chat"
IsEmail(r) == reqs[r].route = "send-email"

\* a field of the body that is missing or empty
Absent(x) == x = Undefined \/ x = Str("")

\* a body with all three of to, subject and text
CompleteEmail(body) ==
  ~Absent(body.to) /\ ~Absent(body.subject) /\ ~Absent(body.text)

\* C1: a send-email request with to, subject or text missing or empty is
\* answered with status 400, once, and no call to the email backend is made.
C1_MissingFieldRejected ==
  \A r \in Requests :
    (IsEmail(r) /\ ~CompleteEmail(reqs[r].body)) =>
      /\ Len(responses[r]) = 1
      /\ responses[r][1].status = 400
      /\ emailCalls[r] = <<>>

\* the relay is configured and the body {to: "x@example.com"} has been refused
C1_Witness ==
  \E r \in Requests :
    /\ IsEmail(r)
    /\ Truthy(backendBaseUrl)
    /\ reqs[r].body.to = Str("x@example.com")
    /\ reqs[r].body.subject = Undefined
    /\ reqs[r].body.text = Undefined
    /\ Len(responses[r]) = 1
    /\ responses[r][1].status = 400

\* C2: with no relay URL configured, a send-email request with a complete
\* body gets the 400 'not configured' error and nothing else, and the email
\* backend is not called.
C2_UnconfiguredRelayRefuses ==
  backendBaseUrl = Undefined =>
    \A r \in Requests :
      (IsEmail(r) /\ CompleteEmail(reqs[r].body)) =>
        /\ Len(responses[r]) = 1
        /\ responses[r][1].status = 400
        /\ responses[r][1].json = [error |-> "BACKEND_BASE_URL not configured in .env"]
        /\ emailCalls[r] = <<>>

\* no relay URL, and a complete request has been answered
C2_Witness ==
  /\ backendBaseUrl = Undefined
  /\ \E r \in Requests :
       /\ IsEmail(r)
       /\ CompleteEmail(reqs[r].body)
       /\ Len(responses[r]) = 1

\* the history the caller supplied, none being the empty one
SuppliedHistory(body) ==
  IF body.history.kind = "array" THEN body.history.turns ELSE <<>>

\* C3: the turn sequence of every model invocation has length |history|+1,
\* its first |history| elements carry the texts of the supplied history in
\* the caller's order, and its last element is the new message, role user.
C3_TurnOrderPreserved ==
  \A r \in Requests :
    \A k \in 1..Len(modelCalls[r]) :
      LET c == modelCalls[r][k].contents
          h == SuppliedHistory(reqs[r].body)
      IN /\ Len(c) = Len(h) + 1
         /\ \A i \in 1..Len(h) : c[i].text = h[i].content
         /\ c[Len(c)] = [role |-> "user", text |-> reqs[r].body.message.v]

\* a model invocation for a history of two different turns
C3_Witness ==
  \E r \in Requests :
    /\ Len(modelCalls[r]) = 1
    /\ Len(SuppliedHistory(reqs[r].body)) = 2
    /\ SuppliedHistory(reqs[r].body)[1] # SuppliedHistory(reqs[r].body)[2]

\* the user a request is made for: its userId, or the default user
RequestUser(body) == IF body.userId = Undefined THEN Str("demo") ELSE body.userId

\* C4: the system instruction of every model invocation is the one built
\* from the user id of the request that the invocation carries.
C4_InstructionBuiltForRequestUser ==
  \A r \in Requests :
    \A k \in 1..Len(modelCalls[r]) :
      modelCalls[r][k].systemInstruction =
        buildSystemInstruction(RequestUser(reqs[r].body))

\* the process-wide sender identity
ConfiguredSender ==
  IF agentmailAgent \in {Undefined, Str("")}
    THEN Str("terriblemedicine23@agentmail.to")
    ELSE agentmailAgent

\* C5: every request to the email backend carries the caller's to, subject
\* and text as recipientEmail, subject and text, and the configured sender
\* as agent_email; the profile's email is in meta only.
C5_RelayForwardsVerbatim ==
  \A r \in Requests :
    \A k \in 1..Len(emailCalls[r]) :
      LET out == emailCalls[r][k]
          body == reqs[r].body
      IN /\ out.recipientEmail = body.to
         /\ out.subject = body.subject
         /\ out.text = body.text
         /\ out.agent_email = ConfiguredSender
         /\ out.meta.userId = RequestUser(body)

\* a forwarded request of a user whose profile has another email than the
\* recipient, under a sender set in the environment
C5_Witness ==
  \E r \in Requests :
    /\ Len(emailCalls[r]) = 1
    /\ agentmailAgent = Str("ops@agentmail.to")
    /\ emailCalls[r][1].meta.profileEmail = Str("demo@example.com")
    /\ reqs[r].body.to = Str("x@example.com")

\* the backend has answered r's forwarded request, and r is answered
EmailAnswered(r) ==
  IsEmail(r) /\ reqs[r].phase = "done" /\ reqs[r].outcome.kind = "response"

\* C6: a non-success answer of the email backend makes the response 502,
\* with the upstream status and the upstream body text (the empty text when
\* the upstream body cannot be read).
C6_UpstreamFailureIs502 ==
  \A r \in Requests :
    (EmailAnswered(r) /\ reqs[r].outcome.status \notin 200..299) =>
      /\ Len(responses[r]) = 1
      /\ responses[r][1].status = 502
      /\ responses[r][1].json.status = reqs[r].outcome.status
      /\ responses[r][1].json.body =
           (IF reqs[r].outcome.body.readable THEN reqs[r].outcome.body.text ELSE "")

\* the backend answered 500 with a readable body, and r is answered
C6_Witness ==
  \E r \in Requests :
    /\ EmailAnswered(r)
    /\ reqs[r].outcome.status = 500
    /\ reqs[r].outcome.body.text = "upstream exploded"
    /\ Len(responses[r]) = 1

\* the fetch of r's forwarded request was rejected, and r is answered
EmailNetworkFailed(r) ==
  IsEmail(r) /\ reqs[r].phase = "done" /\ reqs[r].outcome.kind = "network"

\* what the catch blocks report of a fault: e.message, or String(e)
FaultText(e) == IF e.message = Undefined THEN e.string ELSE e.message.v

\* C7 as claimed: a network-level failure of the call to the email backend
\* is answered with status 502.
C7_NetworkFailureIs502 ==
  \A r \in Requests :
    EmailNetworkFailed(r) =>
      /\ Len(responses[r]) = 1
      /\ responses[r][1].status = 502

\* C7 as amended: a network-level failure of the call to the email backend
\* is answered once, with status 500 and {error: 'send_email_failed',
\* details}, never as success.
C7_NetworkFailureIs500 ==
  \A r \in Requests :
    EmailNetworkFailed(r) =>
      /\ Len(responses[r]) = 1
      /\ responses[r][1].status = 500
      /\ responses[r][1].json =
           [error |-> "send_email_failed",
            details |-> FaultText(reqs[r].outcome.error)]

\* a rejected fetch has been answered
C7_Witness ==
  \E r \in Requests : EmailNetworkFailed(r) /\ Len(responses[r]) = 1

\* a message that is missing, empty or not a string
MessageNotText(m) == m = Undefined \/ m = Str("") \/ m.t # "string"

\* C8: a chat request whose message is missing, empty or not a string is
\* answered with status 400, once, and the model backend is not invoked.
C8_InvalidMessageRejected ==
  \A r \in Requests :
    (IsChat(r) /\ MessageNotText(reqs[r].body.message)) =>
      /\ Len(responses[r]) = 1
      /\ responses[r][1].status = 400
      /\ modelCalls[r] = <<>>

\* a chat request with a number as message has been refused
C8_Witness ==
  \E r \in Requests :
    /\ IsChat(r)
    /\ reqs[r].body.message = Num("7")
    /\ Len(responses[r]) = 1
    /\ responses[r][1].status = 400

\* r's model invocation failed, and r is answered
ChatModelFailed(r) ==
  /\ IsChat(r)
  /\ reqs[r].phase = "done"
  /\ reqs[r].outcome.kind \in {"rejected", "malformed"}

\* C9: a failed model invocation is answered once, with status 500 and
\* {error: 'chat_failed', details}; the process keeps serving, and every
\* free request context accepts the next request.
C9_ModelFailureIs500 ==
  \A r \in Requests :
    ChatModelFailed(r) =>
      /\ Len(responses[r]) = 1
      /\ responses[r][1].status = 500
      /\ responses[r][1].json =
           [error |-> "chat_failed", details |-> FaultText(reqs[r].outcome.error)]
      /\ serving
      /\ \A q \in Requests :
           reqs[q].phase = "idle" =>
             ENABLED ChatStart(q, [message |-> Str("hello"), history |-> NoHistory,
                                   userId |-> Undefined, modelName |-> Undefined])

\* one request failed with a thrown non-Error, and another is being served
C9_Witness ==
  \E r, q \in Requests :
    /\ ChatModelFailed(r)
    /\ reqs[r].outcome.error.message = Undefined
    /\ Len(responses[r]) = 1
    /\ q # r
    /\ IsChat(q)
    /\ reqs[q].phase = "awaiting"

\* C10: every chat request the gateway accepted is eventually answered,
\* exactly once.
C10_EveryChatAnswered ==
  \A r \in Requests :
    (IsChat(r) /\ reqs[r].phase # "idle") ~> (Len(responses[r]) = 1)

\* C11: the gateway never retries: a chat request has at most one model
\* invocation and a send-email request at most one call to the email
\* backend, at every moment and whatever the call's outcome.
C11_NoRetry ==
  \A r \in Requests :
    /\ Len(modelCalls[r]) <= 1
    /\ Len(emailCalls[r]) <= 1
    /\ (reqs[r].phase = "done" /\ reqs[r].outcome.kind \in
           {"text", "malformed", "rejected", "response", "network"}) =>
         Len(modelCalls[r]) + Len(emailCalls[r]) = 1

\* a model call was rejected and a fetch was rejected, both requests are
\* answered, and each made its one call
C11_Witness ==
  \E r, q \in Requests :
    /\ ChatModelFailed(r)
    /\ reqs[r].outcome.kind = "rejected"
    /\ Len(modelCalls[r]) = 1
    /\ EmailNetworkFailed(q)
    /\ Len(emailCalls[q]) = 1

IsProfile(r) == reqs[r].route = "profile"

\* what the store held for an id when the lookup ran: the record, or nothing
\* when there was none or the store could not be read
StoredProfile(st, id) ==
  IF st.readable /\ id \in DOMAIN st.records
    THEN st.records[id] ELSE [email |-> Undefined, allergies |-> {}]

\* C12: GET /api/profile/:userId answers 200 with {userId, profile} for every
\* id: the stored record, or the empty profile when the id has no record or
\* the store cannot be read; the lookup never fails the request.
C12_ProfileAlways200 ==
  \A r \in Requests :
    IsProfile(r) =>
      /\ Len(responses[r]) = 1
      /\ responses[r][1].status = 200
      /\ responses[r][1].json.userId = reqs[r].body.userId.v
      /\ responses[r][1].json.profile =
           StoredProfile(reqs[r].outcome.store, reqs[r].body.userId.v)

C12_Witness ==
  \E r, q \in Requests :
    /\ IsProfile(r) /\ ~reqs[r].outcome.store.readable
    /\ responses[r][1].status = 200
    /\ IsProfile(q) /\ reqs[q].outcome.store.readable
    /\ reqs[q].body.userId.v \notin DOMAIN reqs[q].outcome.store.records
    /\ responses[q][1].status = 200

CredentialMissing == apiKey = Undefined \/ apiKey = Str("")

NothingServed ==
  \A r \in Requests :
    /\ reqs[r].phase = "idle"
    /\ responses[r] = <<>>
    /\ modelCalls[r] = <<>>
    /\ emailCalls[r] = <<>>

\* C13: a process started without the model API credential (absent or
\* empty) never listens: it serves no request of any route, answers
\* nothing and calls no backend.
C13_NoCredentialNoService ==
  CredentialMissing => (~serving /\ NothingServed)

C13_Witness ==
  /\ apiKey = Str("")
  /\ systemMd # "missing"
  /\ ~serving
  /\ \A r \in Requests, body \in SurfaceChatBodies : ~ENABLED ChatStart(r, body)

TemplateMissing == systemMd = "missing"

CaughtFault(r) == ChatModelFailed(r) \/ EmailNetworkFailed(r)

\* C15: the response to an unexpected failure of /api/chat or
\* /api/send-email carries no field holding the text of the caught exception.
C15_NoRawExceptionText ==
  \A r \in Requests :
    CaughtFault(r) =>
      \A k \in 1..Len(responses[r]) :
        \A f \in DOMAIN responses[r][k].json :
          responses[r][k].json[f] # FaultText(reqs[r].outcome.error)

\* the fields of an error body that can hold a detail next to the code
DetailFields(json) == DOMAIN json \ {"error", "status"}

\* C16: every 4xx and 5xx response of /api/chat and /api/send-email has an
\* error code and, next to it, a field with a detail string.
C16_ErrorsCarryCodeAndDetail ==
  \A r \in Requests :
    \A k \in 1..Len(responses[r]) :
      ((IsChat(r) \/ IsEmail(r)) /\ responses[r][k].status >= 400) =>
        /\ "error" \in DOMAIN responses[r][k].json
        /\ DetailFields(responses[r][k].json) # {}

\* a history that is not a sequence of {role, content} turns
HistoryWrongShape(h) ==
  \/ h.kind \notin {"undefined", "array"}
  \/ \E i \in 1..Len(h.turns) : h.turns[i].role \notin {"user", "assistant"}

\* C17: a chat request with a valid message and a history of the wrong
\* shape is answered with status 400, once, and nothing is sent to the model
\* backend.
C17_BadHistoryRejected ==
  \A r \in Requests :
    (/\ IsChat(r)
     /\ ~MessageNotText(reqs[r].body.message)
     /\ HistoryWrongShape(reqs[r].body.history)) =>
      /\ Len(responses[r]) = 1
      /\ responses[r][1].status = 400
      /\ modelCalls[r] = <<>>

\* the email backend answered the forwarded request with a success status
BackendSucceeded(r) == EmailAnswered(r) /\ reqs[r].outcome.status \in 200..299

\* C18 as claimed: on a success status of the email backend the response is
\* {ok: true, forwarded} with forwarded the body the backend sent.
C18_ForwardedIsBackendBody ==
  \A r \in Requests :
    BackendSucceeded(r) =>
      /\ Len(responses[r]) = 1
      /\ responses[r][1].status = 200
      /\ responses[r][1].json =
           [ok |-> TRUE, forwarded |-> reqs[r].outcome.body.text]

\* C18 as amended: on a success status of the email backend the response is
\* 200 {ok: true, forwarded}, with forwarded the backend's body when that is
\* JSON, and the empty object when it is not JSON or cannot be read.
C18_ForwardedIsParsedBody ==
  \A r \in Requests :
    BackendSucceeded(r) =>
      /\ Len(responses[r]) = 1
      /\ responses[r][1].status = 200
      /\ responses[r][1].json =
           [ok |-> TRUE,
            forwarded |-> IF /\ reqs[r].outcome.body.readable
                             /\ reqs[r].outcome.body.isJson
                            THEN reqs[r].outcome.body.text ELSE "{}"]

\* the backend answered 200 with a body that is no JSON, and r is answered
C18_Witness ==
  \E r \in Requests :
    /\ BackendSucceeded(r)
    /\ reqs[r].outcome.body.readable /\ ~reqs[r].outcome.body.isJson
    /\ Len(responses[r]) = 1
    /\ responses[r][1].json.forwarded = "{}"

\* two answered lookups of the same id with no rewrite of the store between
SameLookup(r, q) ==
  /\ IsProfile(r) /\ IsProfile(q)
  /\ reqs[r].body.userId = reqs[q].body.userId
  /\ reqs[r].outcome.epoch = reqs[q].outcome.epoch

IsHealth(r) == reqs[r].route = "health"

\* some request is waiting for a backend
CallInFlight == \E q \in Requests : reqs[q].phase \in {"awaiting", "settled"}

\* C20: every health check is answered once, with status 200 and ok: true,
\* and while the gateway serves every free request context takes a health
\* check, whatever the relay configuration and the state of other requests.
C20_HealthAlways200 ==
  /\ \A r \in Requests :
       IsHealth(r) =>
         /\ Len(responses[r]) = 1
         /\ responses[r][1].status = 200
         /\ responses[r][1].json.ok = TRUE
  /\ (serving /\ variant = "perUser") =>
       \A q \in Requests :
         reqs[q].phase = "idle" => \E t \in Times : ENABLED HealthGet(q, t)

\* a health check was answered with no relay URL configured while a
\* concurrent chat request was waiting for the model backend
C20_Witness ==
  \E r \in Requests :
    /\ IsHealth(r)
    /\ responses[r][1].status = 200
    /\ backendBaseUrl = Undefined
    /\ CallInFlight

\* the role the model backend knows a turn of the conversation by
BackendRole(role) == CASE role = "assistant" -> "model" [] role = "user" -> "user"

\* C21: in every model invocation each history turn with role assistant is
\* sent with role model and each with role user with role user, its text
\* unchanged, and the sequence sent holds no role but user and model.
C21_RolesConverted ==
  \A r \in Requests :
    \A k \in 1..Len(modelCalls[r]) :
      LET sent == modelCalls[r][k].contents
          hist == reqs[r].body.history.turns
      IN /\ \A i \in 1..Len(hist) :
              hist[i].role \in {"user", "assistant"} =>
                /\ sent[i].role = BackendRole(hist[i].role)
                /\ sent[i].text = hist[i].content
         /\ \A i \in 1..Len(sent) : sent[i].role \in {"user", "model"}

\* a history with an assistant turn and a user turn was sent to the model
C21_Witness ==
  \E r \in Requests :
    /\ Len(modelCalls[r]) = 1
    /\ \E i, j \in 1..Len(reqs[r].body.history.turns) :
         /\ reqs[r].body.history.turns[i].role = "assistant"
         /\ reqs[r].body.history.turns[j].role = "user"
         /\ modelCalls[r][1].contents[i].role = "model"

\* ---- the CLI session (server.ts) ----

\* Most chats of one CLI session that the model answers.
MaxCliChats == 2

\* the gateway process is not running beside the CLI
GatewayDown ==
  /\ variant = "perUser"
  /\ systemMd = "generic"
  /\ apiKey = Undefined
  /\ backendBaseUrl = Undefined
  /\ agentmailAgent = Undefined
  /\ serving = StartupPasses(variant, systemMd, apiKey)
  /\ profileStore = [readable |-> TRUE, records |-> ProfileStore]
  /\ storeEpoch = 0
  /\ NoRequests

\* what the user can type at the prompt
CliLines ==
  {"", "  ", ":quit", ":mail", ":mail \"Hi\" | Body", "hello", " again "}

\* String.prototype.trim
Trim(line) ==
  CASE line = "  " -> ""
    [] line = " " -> ""
    [] line = " again " -> "again"
    [] line = "hi " -> "hi"
    [] OTHER -> line

\* q.startsWith(':mail')
StartsWithMail(q) == q \in {":mail", ":mail \"Hi\" | Body"}

\* q.match(/^:mail\s+"([^"]+)"\s*\|\s*(.+)$/): the groups, or null
MailMatch(q) ==
  IF q = ":mail \"Hi\" | Body"
    THEN [matched |-> TRUE, subject |-> "Hi", body |-> "Body"]
    ELSE [matched |-> FALSE, subject |-> "", body |-> ""]

\* the process at its first prompt: BACKEND and profile.email as they were
\* read, an empty history
CliInit ==
  /\ GatewayDown
  /\ WidgetMounted /\ PortalOff
  /\ cliEnv \in [backend : {Undefined, Str("http://127.0.0.1:5000")},
                 email : {Undefined, Str("demo@example.com")}]
  /\ cliPc = "prompt"
  /\ cliLine = NoLine
  /\ cliHistory = <<>>
  /\ cliOut = ""

CliOthers ==
  UNCHANGED <<config, store, serving, reqs, responses, modelCalls, emailCalls,
              widgetVars, portalVars>>

\* if (!q) continue
CliEmpty(line) ==
  /\ cliPc = "prompt"
  /\ Trim(line) = ""
  /\ cliLine' = [cmd |-> "empty", text |-> "", outcome |-> NoOutcome]
  /\ cliOut' = ""
  /\ UNCHANGED <<cliEnv, cliPc, cliHistory>>
  /\ CliOthers

\* if (q === ':quit') break; rl.close(); console.log('bye')
CliQuit(line) ==
  /\ cliPc = "prompt"
  /\ Trim(line) = ":quit"
  /\ cliLine' = [cmd |-> "quit", text |-> "", outcome |-> NoOutcome]
  /\ cliPc' = "closed"
  /\ cliOut' = "bye"
  /\ UNCHANGED <<cliEnv, cliHistory>>
  /\ CliOthers

\* the :mail branch up to the await inside sendEmailViaBackend
CliMail(line) ==
  /\ cliPc = "prompt"
  /\ StartsWithMail(Trim(line))
  /\ cliLine' = [cmd |-> "mail", text |-> Trim(line), outcome |-> NoOutcome]
  /\ IF ~Truthy(cliEnv.email)
       THEN cliOut' = "no_recipient" /\ cliPc' = "prompt"
       ELSE IF ~MailMatch(Trim(line)).matched
       THEN cliOut' = "usage" /\ cliPc' = "prompt"
       ELSE IF ~Truthy(cliEnv.backend)
       THEN cliOut' = "backend_not_set" /\ cliPc' = "prompt"
       ELSE cliOut' = "" /\ cliPc' = "mailing"
  /\ UNCHANGED <<cliEnv, cliHistory>>
  /\ CliOthers

\* sendEmailViaBackend after its await, and what main() does with it: the
\* fetch is in no try, so its rejection rejects main(), and
\* main().catch logs the error and calls process.exit(1)
CliAfterMail(o) ==
  IF o.kind = "network" THEN [pc |-> "exited", out |-> "unhandled"]
  ELSE IF UpstreamOk(o.status) THEN [pc |-> "prompt", out |-> "email_sent"]
  ELSE [pc |-> "prompt", out |-> "email_failed"]

\* the fetch of sendEmailViaBackend settles and the session goes on from it
CliMailReturns(o) ==
  /\ cliPc = "mailing"
  /\ cliLine' = [cliLine EXCEPT !.outcome = o]
  /\ cliPc' = CliAfterMail(o).pc
  /\ cliOut' = CliAfterMail(o).out
  /\ UNCHANGED <<cliEnv, cliHistory>>
  /\ CliOthers

\* the chat branch up to `await model.generateContent({ contents })`
CliChat(line) ==
  /\ cliPc = "prompt"
  /\ Trim(line) # "" /\ Trim(line) # ":quit" /\ ~StartsWithMail(Trim(line))
  /\ Len(cliHistory) < 2 * MaxCliChats
  /\ cliLine' = [cmd |-> "chat", text |-> Trim(line), outcome |-> NoOutcome,
                 contents |-> Contents(cliHistory, Trim(line))]
  /\ cliPc' = "chatting"
  /\ cliOut' = ""
  /\ UNCHANGED <<cliEnv, cliHistory>>
  /\ CliOthers

\* a session that records the user turn before it calls the model
CliHistoryAfter_UserFirst(history, q, o) ==
  IF o.kind = "text"
    THEN history \o <<[role |-> "user", content |-> q],
                      [role |-> "assistant", content |-> o.text]>>
    ELSE Append(history, [role |-> "user", content |-> q])

\* the two pushes after a reply whose text could be read; the catch pushes
\* nothing
CliHistoryAfter(history, q, o) ==
  IF o.kind = "text"
    THEN history \o <<[role |-> "user", content |-> q],
                      [role |-> "assistant", content |-> o.text]>>
    ELSE history

\* generateContent settles and the try or the catch runs
CliChatReturns(o) ==
  /\ cliPc = "chatting"
  /\ cliLine' = [cliLine EXCEPT !.outcome = o]
  /\ cliHistory' = CliHistoryAfter(cliHistory, cliLine.text, o)
  /\ cliOut' = IF o.kind = "text" THEN "ai" ELSE "chat_failed"
  /\ cliPc' = "prompt"
  /\ UNCHANGED cliEnv
  /\ CliOthers

CliNext ==
  \/ \E line \in CliLines : CliEmpty(line)
  \/ \E line \in CliLines : CliQuit(line)
  \/ \E line \in CliLines : CliMail(line)
  \/ \E o \in EmailOutcomes : CliMailReturns(o)
  \/ \E line \in CliLines : CliChat(line)
  \/ \E o \in ModelOutcomes : CliChatReturns(o)

CliSpec == CliInit /\ [][CliNext]_vars

\* the email backend failed on the :mail command read last: it answered with
\* a non-success status, or the call failed at the network level
CliMailFailed ==
  /\ cliLine.cmd = "mail"
  /\ \/ cliLine.outcome.kind = "network"
     \/ cliLine.outcome.kind = "response" /\ cliLine.outcome.status \notin 200..299

\* C22: after a failure of the email backend on a :mail command the failure
\* has been reported on the console and the session is at its next prompt.
C22_MailFailureReported ==
  CliMailFailed => (cliPc = "prompt" /\ cliOut = "email_failed")

\* user, assistant, user, assistant, ...
Alternates(h) ==
  /\ Len(h) % 2 = 0
  /\ \A i \in 1..Len(h) :
       h[i].role = IF i % 2 = 1 THEN "user" ELSE "assistant"

\* C27: the history of the CLI session always has even length and
\* alternates user, assistant, and a step changes it only when a model call
\* returned a text, by appending the user turn and the assistant turn.
C27_HistoryGrowsByPairs ==
  /\ []Alternates(cliHistory)
  /\ [][cliHistory' # cliHistory =>
          /\ cliPc = "chatting"
          /\ cliLine'.outcome.kind = "text"
          /\ cliHistory' = cliHistory \o
               <<[role |-> "user", content |-> cliLine.text],
                 [role |-> "assistant", content |-> cliLine'.outcome.text]>>]_vars

\* after two answered chats a third line, of any kind but an answered chat,
\* has been handled and the history still holds the two pairs
C27_Witness ==
  /\ Len(cliHistory) = 4
  /\ cliPc = "prompt"
  /\ \/ cliLine.cmd = "chat" /\ cliLine.outcome.kind = "rejected"
     \/ cliLine.cmd = "mail" /\ cliLine.outcome.kind = "response"

\* ---- the chat widget of the browser (DashboardContent.tsx, Chat) ----

\* Most messages one widget sends.
MaxWidgetSends == 2

\* what the input field can hold
WidgetInputs == {"", " ", "hi", "hi "}

UserEntries(h) == {i \in 1..Len(h) : h[i].role = "user"}
AssistantEntries(h) == {i \in 1..Len(h) : h[i].role = "assistant"}

\* the widget talks to a gateway of either kind, started with or without
\* what it needs; the relay settings play no part in /api/chat
WidgetInit ==
  /\ ConfigInit
  /\ backendBaseUrl = Undefined /\ agentmailAgent = Undefined
  /\ profileStore = [readable |-> TRUE, records |-> ProfileStore]
  /\ storeEpoch = 0
  /\ NoRequests
  /\ CliOff /\ WidgetMounted /\ PortalOff

WidgetOthers ==
  UNCHANGED <<config, store, serving, reqs, responses, modelCalls, emailCalls,
              cliVars, portalVars>>

\* onChange={e => setInput(e.target.value)}
WidgetType(text) ==
  /\ text # widgetInput
  /\ widgetInput' = text
  /\ UNCHANGED <<widgetHistory, widgetLoading, wire>>
  /\ WidgetOthers

\* send() up to `await fetch('/api/chat', ...)`, over the connection r.  The
\* field before records the history on display when send was called.
send(r) ==
  /\ Trim(widgetInput) # ""
  /\ Cardinality(UserEntries(widgetHistory)) < MaxWidgetSends
  /\ ~wire[r].sent /\ reqs[r].phase = "idle"
  /\ LET message == Trim(widgetInput)
         nextHistory == Append(widgetHistory, [role |-> "user", content |-> message])
     IN /\ widgetInput' = ""
        /\ widgetHistory' = nextHistory
        /\ widgetLoading' = TRUE
        /\ wire' = [wire EXCEPT ![r] =
              [sent |-> TRUE, before |-> widgetHistory,
               body |-> [message |-> Str(message),
                         history |-> ArrayHistory(nextHistory),
                         userId |-> Undefined, modelName |-> Undefined]]]
  /\ WidgetOthers

\* <button onClick={send} disabled={loading}>
WidgetClickSend(r) == ~widgetLoading /\ send(r)

\* if (e.key === 'Enter' && !e.shiftKey) send()
onKeyDown(r, key, shiftKey) ==
  /\ key = "Enter" /\ ~shiftKey
  /\ send(r)

\* the request reaches the gateway, whose handler runs up to its await
WidgetRequestArrives(r) == wire[r].sent /\ ChatStart(r, wire[r].body)

\* data.text ?? '(no response)'
ReplyText(json) == IF "text" \in DOMAIN json THEN json.text ELSE "(no response)"

\* send() after its awaits, with the gateway's response: the try, then the
\* finally
WidgetReceive(r) ==
  /\ wire[r].sent
  /\ reqs[r].phase = "done" /\ responses[r] # <<>>
  /\ widgetHistory' = Append(widgetHistory,
        [role |-> "assistant", content |-> ReplyText(responses[r][1].json)])
  /\ widgetLoading' = FALSE
  /\ wire' = [wire EXCEPT ![r] = NoWire]
  /\ UNCHANGED widgetInput
  /\ WidgetOthers

\* the fetch rejects (no gateway listening, or the connection is lost): the
\* catch, then the finally
WidgetFetchRejects(r) ==
  /\ wire[r].sent
  /\ widgetHistory' = Append(widgetHistory,
        [role |-> "assistant", content |-> "Error contacting AI."])
  /\ widgetLoading' = FALSE
  /\ wire' = [wire EXCEPT ![r] = NoWire]
  /\ UNCHANGED widgetInput
  /\ WidgetOthers

\* the gateway is done with a request whose fetch has settled
WidgetRelease(r) == ~wire[r].sent /\ Release(r)

WidgetNext ==
  \/ \E text \in WidgetInputs : WidgetType(text)
  \/ \E r \in Requests :
       \/ WidgetClickSend(r)
       \/ \E key \in {"Enter", "a"}, shiftKey \in BOOLEAN : onKeyDown(r, key, shiftKey)
       \/ WidgetRequestArrives(r)
       \/ \E o \in ModelOutcomes : ModelSettles(r, o)
       \/ ChatResume(r)
       \/ WidgetReceive(r)
       \/ WidgetFetchRejects(r)
       \/ WidgetRelease(r)

WidgetSpec == WidgetInit /\ [][WidgetNext]_vars

\* The browser and the gateway run the continuation of an await that has
\* settled, a request reaches a gateway that listens, and a fetch to a
\* gateway that does not listen rejects; nothing makes the model backend
\* answer.
WidgetFairSpec ==
  /\ WidgetSpec
  /\ \A r \in Requests :
       /\ WF_vars(WidgetRequestArrives(r))
       /\ WF_vars(ChatResume(r))
       /\ WF_vars(WidgetReceive(r))
       /\ WF_vars(~serving /\ WidgetFetchRejects(r))

\* C23: for a message the widget sent, the turn sequence the gateway passes
\* to the model is the conversation on display before the send followed by
\* the new message: the new user message is in it once, as the last turn.
C23_NewMessageOnce ==
  \A r \in Requests :
    wire[r].sent =>
      \A k \in 1..Len(modelCalls[r]) :
        LET sent == modelCalls[r][k].contents IN
          /\ Len(sent) = Len(wire[r].before) + 1
          /\ sent[Len(sent)] = [role |-> "user", text |-> wire[r].body.message.v]
          /\ \A i \in 1..Len(wire[r].before) : sent[i].text = wire[r].before[i].content

\* the sends that are waiting for their response
SendsInFlight == {r \in Requests : wire[r].sent}

\* C24: the widget never has more than one /api/chat request in flight.
C24_OneSendInFlight == Cardinality(SendsInFlight) <= 1

\* C25: the widget's loading flag is true exactly while some send is
\* waiting for its response.
C25_LoadingWhileInFlight == widgetLoading <=> (SendsInFlight # {})

\* the displayed history keeps every entry where it is
AppendOnly ==
  /\ Len(widgetHistory') >= Len(widgetHistory)
  /\ SubSeq(widgetHistory', 1, Len(widgetHistory)) = widgetHistory

\* C26: the displayed history only grows at its end, and for every user
\* message a send appended an assistant entry is appended in the end: there
\* come to be as many assistant entries as user entries.
C26_EverySendAnswered ==
  /\ [][AppendOnly]_vars
  /\ \A n \in 1..MaxWidgetSends :
       (Cardinality(UserEntries(widgetHistory)) >= n)
         ~> (Cardinality(AssistantEntries(widgetHistory)) >= n)

\* C28: with no relay URL configured every send-email request, whatever
\* fields it has, gets the 400 'not configured' error and nothing else; the
\* profile store is not read and the email backend is not called.
C28_ConfigCheckFirst ==
  (backendBaseUrl = Undefined \/ backendBaseUrl = Str("")) =>
    \A r \in Requests :
      IsEmail(r) =>
        /\ Len(responses[r]) = 1
        /\ responses[r][1].status = 400
        /\ responses[r][1].json = [error |-> "BACKEND_BASE_URL not configured in .env"]
        /\ reqs[r].profileReads = 0
        /\ emailCalls[r] = <<>>

\* no relay URL, and a request with no recipient, subject or text has been
\* answered
C28_Witness ==
  /\ backendBaseUrl = Undefined
  /\ \E r \in Requests :
       /\ IsEmail(r)
       /\ reqs[r].body.to = Undefined
       /\ reqs[r].body.subject = Str("")
       /\ reqs[r].body.text = Undefined
       /\ Len(responses[r]) = 1

\* ---- the patient portal (Dashboard.tsx, OnboardingFlow.tsx, api.ts) ----

\* how a request of api.ts settles: response.data, an HTTP error with
\* error.response.status, or an error with no response
PortalProfiles == {"P1", "P2"}
ApiOutcomes ==
  {[kind |-> "ok", status |-> 200, profile |-> p] : p \in PortalProfiles}
  \cup {[kind |-> "http", status |-> st, profile |-> ""] : st \in {404, 500}}
  \cup {[kind |-> "network", status |-> 0, profile |-> ""]}

\* getAccessTokenSilently() rejects: an error with no response
TokenFailed == [kind |-> "token", status |-> 0, profile |-> ""]

PortalInit ==
  /\ GatewayDown
  /\ CliOff /\ WidgetMounted
  /\ \E v \in {"onboarding", "bypass"} : PortalMounted(v)

PortalOthers ==
  UNCHANGED <<config, store, serving, reqs, responses, modelCalls, emailCalls,
              cliVars, widgetVars>>

onboarding == <<currentStep, formData, submits, completed>>

\* the effect runs: if (user) loadPatientData(), up to its first await.
\* Without a user Dashboard.tsx does nothing and the second Dashboard stops
\* loading.
DashEffect(e, user) ==
  /\ loads[e].phase = "idle"
  /\ loads' = [loads EXCEPT ![e].phase = IF user THEN "token" ELSE "done"]
  /\ dashLoading' = IF ~user /\ dashVariant = "bypass" THEN FALSE ELSE dashLoading
  /\ UNCHANGED <<dashVariant, patientProfile, isNewUser, onboarding>>
  /\ PortalOthers

\* the catch of loadPatientData: what isNewUser becomes
IsNewUserAfterError(v, o, was) ==
  IF v = "bypass" THEN FALSE
  ELSE IF o.kind = "http" /\ o.status = 404 THEN TRUE
  ELSE was

\* the try of loadPatientData after the fetch: the second Dashboard calls
\* setIsNewUser(false), Dashboard.tsx leaves isNewUser as it is
IsNewUserAfterLoad(v, was) == IF v = "bypass" THEN FALSE ELSE was

\* `await getAccessTokenSilently()` settles
LoadTokenSettles(e, ok) ==
  /\ loads[e].phase = "token"
  /\ IF ok
       THEN /\ loads' = [loads EXCEPT ![e].phase = "fetch"]
            /\ UNCHANGED <<isNewUser, dashLoading>>
       ELSE /\ loads' = [loads EXCEPT ![e] = [phase |-> "done", outcome |-> TokenFailed]]
            /\ isNewUser' = IsNewUserAfterError(dashVariant, TokenFailed, isNewUser)
            /\ dashLoading' = FALSE
  /\ UNCHANGED <<dashVariant, patientProfile, onboarding>>
  /\ PortalOthers

\* `await fetchPatientProfile(token)` settles: the rest of the try, or the
\* catch, then the finally
LoadFetchSettles(e, o) ==
  /\ loads[e].phase = "fetch"
  /\ loads' = [loads EXCEPT ![e] = [phase |-> "done", outcome |-> o]]
  /\ IF o.kind = "ok"
       THEN /\ patientProfile' = Str(o.profile)
            /\ isNewUser' = IsNewUserAfterLoad(dashVariant, isNewUser)
       ELSE /\ isNewUser' = IsNewUserAfterError(dashVariant, o, isNewUser)
            /\ UNCHANGED patientProfile
  /\ dashLoading' = FALSE
  /\ UNCHANGED <<dashVariant, onboarding>>
  /\ PortalOthers

\* {isNewUser ? <OnboardingFlow .../> : <DashboardContent .../>}, after
\* if (loading) return <Loading />
OnboardingRendered == ~dashLoading /\ isNewUser

\* the step of the form a required field is on (renderStep, case 1 and 2)
FieldStep(f) == IF f \in {"dateOfBirth", "gender", "phone"} THEN 1 ELSE 2

\* what the user can put into a field: nothing, a value, and for the phone
\* number also white space
FieldValues(f) == IF f = "phone" THEN {"", " ", "x"} ELSE {"", "x"}

\* handleInputChange / handleNestedChange
OnbEdit(f, value) ==
  /\ OnboardingRendered
  /\ currentStep = FieldStep(f)
  /\ formData[f] # value
  /\ formData' = [formData EXCEPT ![f] = value]
  /\ UNCHANGED <<dashVariant, patientProfile, isNewUser, dashLoading, loads,
                 currentStep, submits, completed>>
  /\ PortalOthers

\* Next: onClick={() => setCurrentStep(currentStep + 1)}, while currentStep < 4
OnbNext ==
  /\ OnboardingRendered
  /\ currentStep < 4
  /\ currentStep' = currentStep + 1
  /\ UNCHANGED <<dashVariant, patientProfile, isNewUser, dashLoading, loads,
                 formData, submits, completed>>
  /\ PortalOthers

\* Back: onClick={() => setCurrentStep(currentStep - 1)}, while currentStep > 1
OnbBack ==
  /\ OnboardingRendered
  /\ currentStep > 1
  /\ currentStep' = currentStep - 1
  /\ UNCHANGED <<dashVariant, patientProfile, isNewUser, dashLoading, loads,
                 formData, submits, completed>>
  /\ PortalOthers

\* a validation that takes white space for a value
MissingFields_NoTrim(data) == {f \in RequiredFields : data[f] = ""}

\* .filter(([_, value]) => !value || value.trim() === '')
MissingFields(data) ==
  {f \in RequiredFields : data[f] = "" \/ Trim(data[f]) = ""}

\* Complete Setup (rendered on step 4): handleSubmit up to the alert and
\* return, or up to `await getAccessTokenSilently()`
handleSubmit(c) ==
  /\ OnboardingRendered
  /\ currentStep = 4
  /\ submits[c].phase = "idle"
  /\ submits' = [submits EXCEPT ![c] =
        IF MissingFields(formData) # {}
          THEN [NoSubmit EXCEPT !.phase = "refused"]
          ELSE [NoSubmit EXCEPT !.phase = "token", !.tokenCalls = 1]]
  /\ UNCHANGED <<dashVariant, patientProfile, isNewUser, dashLoading, loads,
                 currentStep, formData, completed>>
  /\ PortalOthers

\* the token request settles: createPatientProfile is called, or the catch
\* alerts
SubmitTokenSettles(c, ok) ==
  /\ submits[c].phase = "token"
  /\ submits' = [submits EXCEPT ![c] =
        IF ok THEN [@ EXCEPT !.phase = "create", !.createCalls = 1]
        ELSE [@ EXCEPT !.phase = "failed", !.outcome = TokenFailed]]
  /\ UNCHANGED <<dashVariant, patientProfile, isNewUser, dashLoading, loads,
                 currentStep, formData, completed>>
  /\ PortalOthers

\* whether handleSubmit reaches onComplete(profile): createPatientProfile
\* returned, it did not throw
CreateCompletes(o) == o.kind = "ok"

\* createPatientProfile settles: onComplete(profile), which is the
\* Dashboard's handleOnboardingComplete and takes the flow off the page, or
\* the catch, which alerts
SubmitCreateSettles(c, o) ==
  /\ submits[c].phase = "create"
  /\ IF CreateCompletes(o)
       THEN /\ submits' = [submits EXCEPT ![c].phase = "done", ![c].outcome = o]
            /\ completed' = Append(completed, o.profile)
            /\ patientProfile' = Str(o.profile)
            /\ isNewUser' = FALSE
            /\ currentStep' = 1
            /\ formData' = BlankForm
       ELSE /\ submits' = [submits EXCEPT ![c].phase = "failed", ![c].outcome = o]
            /\ UNCHANGED <<completed, patientProfile, isNewUser, currentStep,
                           formData>>
  /\ UNCHANGED <<dashVariant, dashLoading, loads>>
  /\ PortalOthers

PortalNext ==
  \/ \E e \in Effects, user \in BOOLEAN : DashEffect(e, user)
  \/ \E e \in Effects, ok \in BOOLEAN : LoadTokenSettles(e, ok)
  \/ \E e \in Effects, o \in ApiOutcomes : LoadFetchSettles(e, o)
  \/ \E f \in RequiredFields : \E value \in FieldValues(f) : OnbEdit(f, value)
  \/ OnbNext
  \/ OnbBack
  \/ \E c \in Clicks : handleSubmit(c)
  \/ \E c \in Clicks, ok \in BOOLEAN : SubmitTokenSettles(c, ok)
  \/ \E c \in Clicks, o \in ApiOutcomes : SubmitCreateSettles(c, o)

PortalSpec == PortalInit /\ [][PortalNext]_vars

\* some required personal field of the form is blank
AnyBlank(data) == \E f \in RequiredFields : data[f] \in {"", " "}

\* a run of handleSubmit starts, ends in its catch, or calls onComplete
Clicked(c) == submits[c].phase = "idle" /\ submits'[c].phase # "idle"
Failed(c) == submits[c].phase # "failed" /\ submits'[c].phase = "failed"
Completes == completed' # completed

\* what C29 asks of every step
SubmitStep ==
  /\ \A c \in Clicks :
       /\ (Clicked(c) /\ AnyBlank(formData)) =>
            /\ submits'[c].phase = "refused"
            /\ submits'[c].tokenCalls = 0 /\ submits'[c].createCalls = 0
            /\ ~Completes
       /\ submits[c].phase = "refused" => submits'[c] = submits[c]
       /\ Failed(c) =>
            /\ currentStep' = currentStep
            /\ formData' = formData
            /\ ~Completes
  /\ Completes =>
       \E d \in Clicks :
         /\ submits[d].phase = "create" /\ submits[d].createCalls = 1
         /\ submits'[d].outcome.kind = "ok"
         /\ completed' = Append(completed, submits'[d].outcome.profile)
         /\ patientProfile' = Str(submits'[d].outcome.profile)

\* C29: a submit with a required personal field blank requests no token,
\* creates no profile and does not call onComplete, then or later;
\* onComplete is called only when createPatientProfile succeeded, with the
\* profile it returned; a failed creation changes neither the step nor the
\* form data.
C29_SubmitValidated == [][SubmitStep]_vars

\* a creation failed with the form filled in, and then a submit with white
\* space for the phone number was refused on step 4
C29_Witness ==
  \E c, d \in Clicks :
    /\ submits[d].phase = "failed" /\ submits[d].outcome.kind = "http"
    /\ submits[c].phase = "refused"
    /\ currentStep = 4
    /\ formData["phone"] = " "
    /\ \A f \in RequiredFields \ {"phone"} : formData[f] = "x"

\* a run of loadPatientData ended with the given kind of outcome
Load404 ==
  \E e \in Effects : loads[e].outcome.kind = "http" /\ loads[e].outcome.status = 404
LoadSucceeded == \E e \in Effects : loads[e].outcome.kind = "ok"

\* C30: the onboarding flow is on the page only when a profile fetch failed
\* with 404 and onboarding has not completed, and never once a profile
\* fetch succeeded.
C30_OnboardingOnlyFor404 ==
  /\ OnboardingRendered => (Load404 /\ completed = <<>>)
  /\ LoadSucceeded => ~OnboardingRendered
====
